---- MODULE Spec2Model ----
(***************************************************************************)
(* Model of the recursive tree-operation engine of the File-Explorer       *)
(* repository.  Two implementations live side by side:                     *)
(*   A  src/File_Explorer.cpp   (POSIX calls: stat, rename, mkdir, ...)    *)
(*   B  src/unnamed/part_000    (std::filesystem)                          *)
(* The file store is a function from paths (sequences of names) to nodes;  *)
(* every handler is one action that runs the whole handler.                *)
(*                                                                         *)
(* Permissions are the owner's read and write bits as seen by a non-root   *)
(* process; the search (x) bit is taken as granted, so stat() succeeds on  *)
(* every existing path.  Symbolic links occur only in the stores that the  *)
(* removals of SpecRemoveLinks start from.                                 *)
(***************************************************************************)
EXTENDS Naturals, Sequences, FiniteSets, TLC

VARIABLES fs, ord, call, pre, outcome, prompted, log, ncalls, showHidden,
          currentPath, current, sortBy, dirsFirst, recentFiles

vars == <<fs, ord, call, pre, outcome, prompted, log, ncalls, showHidden,
          currentPath, current, sortBy, dirsFirst, recentFiles>>

(***************************************************************************)
(* Bounds                                                                  *)
(***************************************************************************)
\* Longest path (in components) the store lets mkdir/open create: stands
\* for PATH_MAX, the limit that ends a copy of a directory into itself.
MaxDepth == 4

\* Number of engine calls in one behaviour.  A copy or a move is the first
\* call of a behaviour (it is followed from every initial store to its
\* result); removals may follow and repeat.
MaxCalls == 2

Names == {"a", "b"}

Root == << >>

RW == {"r", "w"}

(***************************************************************************)
(* The file store                                                          *)
(***************************************************************************)
FileNode(d, m) == [kind |-> "file", data |-> d, mode |-> m]

DirNode(m) == [kind |-> "dir", data |-> 0, mode |-> m]

\* a symbolic link to the entry t
LinkNode(t) == [kind |-> "link", data |-> 0, mode |-> {"r", "w"}, to |-> t]

Parent(p) == SubSeq(p, 1, Len(p) - 1)

BaseName(p) == p[Len(p)]

IsPrefix(p, q) == Len(p) <= Len(q) /\ SubSeq(q, 1, Len(p)) = p

\* stat(path) == 0
Exists(f, p) == p \in DOMAIN f

\* S_ISDIR(st_mode) after a successful stat
IsDir(f, p) == p \in DOMAIN f /\ f[p].kind = "dir"

IsFile(f, p) == p \in DOMAIN f /\ f[p].kind = "file"

IsLink(f, p) == p \in DOMAIN f /\ f[p].kind = "link"

RECURSIVE Real(_, _)

\* the entry a path names when every symbolic link on the way, the last
\* segment included, is followed (stat, opendir); links point at entries
\* that are not links
Real(f, p) ==
  IF p = << >> THEN p
  ELSE LET q == Append(Real(f, Parent(p)), BaseName(p))
       IN IF IsLink(f, q) THEN f[q].to ELSE q

\* the entry a path names when its last segment is not followed (lstat,
\* unlink, rmdir)
At(f, p) == IF p = << >> THEN p ELSE Append(Real(f, Parent(p)), BaseName(p))

Below(f, p) == {q \in DOMAIN f : IsPrefix(p, q)}

Children(f, p) == {q \in DOMAIN f : Len(q) = Len(p) + 1 /\ IsPrefix(p, q)}

Drop(f, gone) == [q \in DOMAIN f \ gone |-> f[q]]

\* The tree at p as a function of the paths relative to p.
SubTree(f, p) ==
  [r \in {SubSeq(q, Len(p) + 1, Len(q)) : q \in Below(f, p)} |-> f[p \o r]]

\* opendir(path) != NULL
CanOpendir(f, p) == IsDir(f, p) /\ "r" \in f[p].mode

\* readdir order: the names of the directory's entries in the order `o`
Readdir(f, o, p) == SelectSeq(o, LAMBDA n : Append(p, n) \in DOMAIN f)

\* a new entry p can be made in its parent directory
CanCreate(f, p) ==
  /\ p # Root
  /\ p \notin DOMAIN f
  /\ Len(p) <= MaxDepth
  /\ IsDir(f, Parent(p))
  /\ "w" \in f[Parent(p)].mode

\* the entry p can be taken out of its parent directory
CanDetach(f, p) ==
  /\ p # Root
  /\ p \in DOMAIN f
  /\ "w" \in f[Parent(p)].mode

\* unlink(path) == 0
CanUnlink(f, p) == (IsFile(f, p) \/ IsLink(f, p)) /\ CanDetach(f, p)

\* rmdir(path) == 0
CanRmdir(f, p) == IsDir(f, p) /\ Children(f, p) = {} /\ CanDetach(f, p)

(***************************************************************************)
(* Tree Delete, implementation A                                           *)
(***************************************************************************)
RECURSIVE deleteDirectoryRecursive(_, _, _)
RECURSIVE DeleteEntries(_, _, _, _)

\* Mutant of DeleteEntries: the loop does not break at a failed child
DeleteEntries_NoBreak(f, o, path, names) ==
  IF names = << >> THEN [ok |-> TRUE, fs |-> f, log |-> << >>]
  ELSE
    LET fullPath == Append(path, Head(names))
        step ==
          IF ~Exists(f, Real(f, fullPath))
            THEN [ok |-> TRUE, fs |-> f, log |-> << >>]
          ELSE IF IsDir(f, Real(f, fullPath))
            THEN deleteDirectoryRecursive(f, o, fullPath)
          ELSE IF CanUnlink(f, At(f, fullPath))
            THEN [ok |-> TRUE, fs |-> Drop(f, {At(f, fullPath)}),
                  log |-> <<At(f, fullPath)>>]
            ELSE [ok |-> FALSE, fs |-> f, log |-> << >>]
        rest == DeleteEntries(step.fs, o, path, Tail(names))
    IN [ok |-> step.ok /\ rest.ok, fs |-> rest.fs, log |-> step.log \o rest.log]

\* the readdir loop of deleteDirectoryRecursive: break at the first failure
DeleteEntries(f, o, path, names) ==
  IF names = << >> THEN [ok |-> TRUE, fs |-> f, log |-> << >>]
  ELSE
    LET fullPath == Append(path, Head(names))
        step ==
          IF ~Exists(f, Real(f, fullPath))
            THEN [ok |-> TRUE, fs |-> f, log |-> << >>]
          ELSE IF IsDir(f, Real(f, fullPath))
            THEN deleteDirectoryRecursive(f, o, fullPath)
          ELSE IF CanUnlink(f, At(f, fullPath))
            THEN [ok |-> TRUE, fs |-> Drop(f, {At(f, fullPath)}),
                  log |-> <<At(f, fullPath)>>]
            ELSE [ok |-> FALSE, fs |-> f, log |-> << >>]
    IN IF ~step.ok THEN step
       ELSE LET rest == DeleteEntries(step.fs, o, path, Tail(names))
            IN [ok |-> rest.ok, fs |-> rest.fs, log |-> step.log \o rest.log]

\* opendir(path) and the stat of every entry follow symbolic links; unlink
\* and rmdir act on the entry itself
deleteDirectoryRecursive(f, o, path) ==
  IF ~CanOpendir(f, Real(f, path)) THEN [ok |-> FALSE, fs |-> f, log |-> << >>]
  ELSE
    LET loop == DeleteEntries(f, o, path, Readdir(f, o, Real(f, path)))
        self == At(loop.fs, path)
    IN IF loop.ok /\ CanRmdir(loop.fs, self)
         THEN [ok |-> TRUE, fs |-> Drop(loop.fs, {self}),
               log |-> Append(loop.log, self)]
         ELSE [ok |-> FALSE, fs |-> loop.fs, log |-> loop.log]

\* Mutant of DeleteItemResult: a non-empty directory is deleted recursively
\* whatever the answer to the prompt
DeleteItemResult_NoGate(f, o, fullPath, confirm) ==
  IF ~Exists(f, Real(f, fullPath))
    THEN [out |-> "NotFound", fs |-> f, log |-> << >>, prompted |-> FALSE]
  ELSE IF IsDir(f, Real(f, fullPath)) THEN
    IF CanRmdir(f, At(f, fullPath))
      THEN [out |-> "ok", fs |-> Drop(f, {At(f, fullPath)}),
            log |-> <<At(f, fullPath)>>, prompted |-> FALSE]
    ELSE
      LET r == deleteDirectoryRecursive(f, o, fullPath)
      IN [out |-> IF r.ok THEN "ok" ELSE "PartialDeleteFailure",
          fs |-> r.fs, log |-> r.log, prompted |-> TRUE]
  ELSE IF CanUnlink(f, At(f, fullPath))
    THEN [out |-> "ok", fs |-> Drop(f, {At(f, fullPath)}),
          log |-> <<At(f, fullPath)>>, prompted |-> FALSE]
    ELSE [out |-> "CannotDelete", fs |-> f, log |-> << >>, prompted |-> FALSE]

\* Mutant of DeleteItemResult: the result of deleteDirectoryRecursive is not
\* looked at and success is reported
DeleteItemResult_AlwaysOk(f, o, fullPath, confirm) ==
  IF ~Exists(f, Real(f, fullPath))
    THEN [out |-> "NotFound", fs |-> f, log |-> << >>, prompted |-> FALSE]
  ELSE IF IsDir(f, Real(f, fullPath)) THEN
    IF CanRmdir(f, At(f, fullPath))
      THEN [out |-> "ok", fs |-> Drop(f, {At(f, fullPath)}),
            log |-> <<At(f, fullPath)>>, prompted |-> FALSE]
    ELSE IF confirm THEN
      LET r == deleteDirectoryRecursive(f, o, fullPath)
      IN [out |-> "ok", fs |-> r.fs, log |-> r.log, prompted |-> TRUE]
    ELSE [out |-> "ConfirmationRequired", fs |-> f, log |-> << >>,
          prompted |-> TRUE]
  ELSE IF CanUnlink(f, At(f, fullPath))
    THEN [out |-> "ok", fs |-> Drop(f, {At(f, fullPath)}),
          log |-> <<At(f, fullPath)>>, prompted |-> FALSE]
    ELSE [out |-> "CannotDelete", fs |-> f, log |-> << >>, prompted |-> FALSE]

\* deleteItem(name) with the user's answer to the prompt, if one is issued
DeleteItemResult(f, o, fullPath, confirm) ==
  IF ~Exists(f, Real(f, fullPath))
    THEN [out |-> "NotFound", fs |-> f, log |-> << >>, prompted |-> FALSE]
  ELSE IF IsDir(f, Real(f, fullPath)) THEN
    IF CanRmdir(f, At(f, fullPath))
      THEN [out |-> "ok", fs |-> Drop(f, {At(f, fullPath)}),
            log |-> <<At(f, fullPath)>>, prompted |-> FALSE]
    ELSE IF confirm THEN
      LET r == deleteDirectoryRecursive(f, o, fullPath)
      IN [out |-> IF r.ok THEN "ok" ELSE "PartialDeleteFailure",
          fs |-> r.fs, log |-> r.log, prompted |-> TRUE]
    ELSE [out |-> "ConfirmationRequired", fs |-> f, log |-> << >>,
          prompted |-> TRUE]
  ELSE IF CanUnlink(f, At(f, fullPath))
    THEN [out |-> "ok", fs |-> Drop(f, {At(f, fullPath)}),
          log |-> <<At(f, fullPath)>>, prompted |-> FALSE]
    ELSE [out |-> "CannotDelete", fs |-> f, log |-> << >>, prompted |-> FALSE]

(***************************************************************************)
(* Tree Delete, implementation B                                           *)
(***************************************************************************)
RECURSIVE remove_all(_, _, _)
RECURSIVE RemoveAllEntries(_, _, _, _)

\* std::filesystem::remove_all iterating one directory: the first error ends it
RemoveAllEntries(f, o, path, names) ==
  IF names = << >> THEN [ok |-> TRUE, fs |-> f, log |-> << >>]
  ELSE
    LET step == remove_all(f, o, Append(path, Head(names)))
    IN IF ~step.ok THEN step
       ELSE LET rest == RemoveAllEntries(step.fs, o, path, Tail(names))
            IN [ok |-> rest.ok, fs |-> rest.fs, log |-> step.log \o rest.log]

\* std::filesystem::remove_all(p, ec): contents first, then p itself; a
\* symbolic link is removed like a file and never followed
remove_all(f, o, p) ==
  IF ~Exists(f, p) THEN [ok |-> TRUE, fs |-> f, log |-> << >>]
  ELSE IF ~IsDir(f, p) THEN
    IF CanUnlink(f, p)
      THEN [ok |-> TRUE, fs |-> Drop(f, {p}), log |-> <<p>>]
      ELSE [ok |-> FALSE, fs |-> f, log |-> << >>]
  ELSE IF ~CanOpendir(f, p) THEN [ok |-> FALSE, fs |-> f, log |-> << >>]
  ELSE
    LET loop == RemoveAllEntries(f, o, p, Readdir(f, o, p))
    IN IF loop.ok /\ CanRmdir(loop.fs, p)
         THEN [ok |-> TRUE, fs |-> Drop(loop.fs, {p}), log |-> Append(loop.log, p)]
         ELSE [ok |-> FALSE, fs |-> loop.fs, log |-> loop.log]

\* Mutant of RemoveRecursivelyResult: the prompt comes before the existence
\* check
RemoveRecursivelyResult_PromptFirst(f, o, p, ans) ==
  IF ~ans
    THEN [out |-> "ConfirmationRequired", fs |-> f, log |-> << >>,
          prompted |-> TRUE]
  ELSE IF ~Exists(f, Real(f, p))
    THEN [out |-> "NotFound", fs |-> f, log |-> << >>, prompted |-> TRUE]
  ELSE LET r == remove_all(f, o, At(f, p))
       IN [out |-> IF r.ok THEN "ok" ELSE "PartialDeleteFailure",
           fs |-> r.fs, log |-> r.log, prompted |-> TRUE]

\* removeRecursively(name) with the user's answer to the prompt
RemoveRecursivelyResult(f, o, p, ans) ==
  IF ~Exists(f, Real(f, p))
    THEN [out |-> "NotFound", fs |-> f, log |-> << >>, prompted |-> FALSE]
  ELSE IF ~ans
    THEN [out |-> "ConfirmationRequired", fs |-> f, log |-> << >>,
          prompted |-> TRUE]
  ELSE LET r == remove_all(f, o, At(f, p))
       IN [out |-> IF r.ok THEN "ok" ELSE "PartialDeleteFailure",
           fs |-> r.fs, log |-> r.log, prompted |-> TRUE]

(***************************************************************************)
(* Tree Copy, implementation A                                             *)
(***************************************************************************)
\* ifstream src(srcPath).is_open()
CanOpenRead(f, p) == p \in DOMAIN f /\ "r" \in f[p].mode

\* ofstream dest(destPath).is_open(): truncate an existing file or create one
CanOpenWrite(f, p) ==
  IF Exists(f, p) THEN IsFile(f, p) /\ "w" \in f[p].mode ELSE CanCreate(f, p)

OpenWrite(f, p) ==
  IF Exists(f, p) THEN [f EXCEPT ![p].data = 0] ELSE (p :> FileNode(0, RW)) @@ f

\* the destination is opened (and truncated) before the source is read.
\* The stream is not looked at after "dest << src.rdbuf()": when the write
\* fails (wfail: no space left on the device of the destination) the
\* destination stays empty and the copy still counts as done.
copyFileInternal(f, srcPath, destPath, wfail) ==
  IF ~CanOpenRead(f, srcPath) THEN [ok |-> FALSE, fs |-> f]
  ELSE IF ~CanOpenWrite(f, destPath) THEN [ok |-> FALSE, fs |-> f]
  ELSE
    LET opened == OpenWrite(f, destPath)
        written == IF wfail THEN opened
                   ELSE [opened EXCEPT ![destPath].data = opened[srcPath].data]
    IN [ok |-> TRUE,
        fs |-> [written EXCEPT ![destPath].mode = written[srcPath].mode]]

RECURSIVE copyDirectoryRecursive(_, _, _, _, _)
RECURSIVE CopyEntries(_, _, _, _, _, _)

\* the readdir loop of copyDirectoryRecursive: break at the first failure
CopyEntries(f, o, srcPath, destPath, names, wfail) ==
  IF names = << >> THEN [ok |-> TRUE, fs |-> f]
  ELSE
    LET srcFullPath == Append(srcPath, Head(names))
        destFullPath == Append(destPath, Head(names))
        step ==
          IF ~Exists(f, srcFullPath) THEN [ok |-> TRUE, fs |-> f]
          ELSE IF IsDir(f, srcFullPath)
            THEN copyDirectoryRecursive(f, o, srcFullPath, destFullPath, wfail)
            ELSE copyFileInternal(f, srcFullPath, destFullPath, wfail)
    IN IF ~step.ok THEN step
       ELSE CopyEntries(step.fs, o, srcPath, destPath, Tail(names), wfail)

\* mkdir(destPath) comes before opendir(srcPath)
copyDirectoryRecursive(f, o, srcPath, destPath, wfail) ==
  IF ~Exists(f, srcPath) THEN [ok |-> FALSE, fs |-> f]
  ELSE IF ~CanCreate(f, destPath) THEN [ok |-> FALSE, fs |-> f]
  ELSE
    LET made == (destPath :> DirNode(f[srcPath].mode)) @@ f
    IN IF ~CanOpendir(made, srcPath) THEN [ok |-> FALSE, fs |-> made]
       ELSE CopyEntries(made, o, srcPath, destPath, Readdir(made, o, srcPath),
                        wfail)

CopyFileResult(f, o, srcPath, destPath, wfail) ==
  IF ~Exists(f, srcPath)
    THEN [out |-> "SourceNotFound", fs |-> f, log |-> << >>, prompted |-> FALSE]
  ELSE
    LET r == IF IsDir(f, srcPath)
               THEN copyDirectoryRecursive(f, o, srcPath, destPath, wfail)
               ELSE copyFileInternal(f, srcPath, destPath, wfail)
    IN [out |-> IF r.ok THEN "ok" ELSE "CopyFailed", fs |-> r.fs,
        log |-> << >>, prompted |-> FALSE]

(***************************************************************************)
(* rename(2)                                                               *)
(***************************************************************************)
\* xdev: the two paths lie on different devices (EXDEV)
RenameOk(f, old, new, xdev) ==
  /\ old # Root /\ new # Root
  /\ Exists(f, old)
  /\ IsDir(f, Parent(new))
  /\ \/ old = new
     \/ /\ ~xdev
        /\ ~IsPrefix(old, new)
        /\ "w" \in f[Parent(old)].mode
        /\ "w" \in f[Parent(new)].mode
        /\ Exists(f, new) =>
             IF IsDir(f, old) THEN IsDir(f, new) /\ Children(f, new) = {}
             ELSE IsFile(f, new)

Rename(f, old, new) ==
  IF old = new THEN f
  ELSE
    LET moved == Below(f, old)
        kept == (DOMAIN f \ moved) \ {new}
        target(q) == new \o SubSeq(q, Len(old) + 1, Len(q))
    IN [q \in kept \cup {target(m) : m \in moved} |->
          IF q \in kept THEN f[q]
          ELSE f[CHOOSE m \in moved : target(m) = q]]

(***************************************************************************)
(* Tree Move, implementation A                                             *)
(***************************************************************************)
MoveFallback(f, o, srcPath, destPath, wfail) ==
  IF IsDir(f, srcPath) THEN
    LET c == copyDirectoryRecursive(f, o, srcPath, destPath, wfail)
    IN IF c.ok THEN
         LET d == deleteDirectoryRecursive(c.fs, o, srcPath)
         IN [out |-> IF d.ok THEN "ok" ELSE "CopiedButSourceRetained",
             fs |-> d.fs, log |-> d.log, prompted |-> FALSE]
       ELSE [out |-> "MoveFailed", fs |-> c.fs, log |-> << >>,
             prompted |-> FALSE]
  ELSE
    LET c == copyFileInternal(f, srcPath, destPath, wfail)
    IN IF c.ok THEN
         IF CanUnlink(c.fs, srcPath)
           THEN [out |-> "ok", fs |-> Drop(c.fs, {srcPath}),
                 log |-> <<srcPath>>, prompted |-> FALSE]
           ELSE [out |-> "CopiedButSourceRetained", fs |-> c.fs,
                 log |-> << >>, prompted |-> FALSE]
       ELSE [out |-> "MoveFailed", fs |-> c.fs, log |-> << >>,
             prompted |-> FALSE]

\* the destination moveFile settles on: dst/basename(source) when dst is a
\* directory, else dst
ResolveDest(f, srcPath, dst) ==
  IF IsDir(f, dst) THEN Append(dst, BaseName(srcPath)) ELSE dst

MoveFileResult(f, o, srcPath, dst, xdev, wfail) ==
  LET destPath == ResolveDest(f, srcPath, dst)
      same == [fs |-> f, log |-> << >>, prompted |-> FALSE]
  IN IF ~Exists(f, srcPath) THEN [out |-> "SourceNotFound"] @@ same
     ELSE IF IsDir(f, dst) /\ Exists(f, destPath)
       THEN [out |-> "DestinationExists"] @@ same
     ELSE IF Exists(f, dst) /\ ~IsDir(f, dst)
       THEN [out |-> "DestinationIsFile"] @@ same
     ELSE IF RenameOk(f, srcPath, destPath, xdev)
       THEN [out |-> "ok", fs |-> Rename(f, srcPath, destPath),
             log |-> << >>, prompted |-> FALSE]
     ELSE MoveFallback(f, o, srcPath, destPath, wfail)

(***************************************************************************)
(* Tree Move, implementation B                                             *)
(***************************************************************************)
RECURSIVE create_directories(_, _)

\* std::filesystem::create_directories(p, ec): every missing ancestor, then p
create_directories(f, p) ==
  IF IsDir(f, p) THEN [ok |-> TRUE, fs |-> f]
  ELSE IF Exists(f, p) THEN [ok |-> FALSE, fs |-> f]
  ELSE
    LET up == create_directories(f, Parent(p))
    IN IF up.ok /\ CanCreate(up.fs, p)
         THEN [ok |-> TRUE, fs |-> (p :> DirNode(RW)) @@ up.fs]
         ELSE [ok |-> FALSE, fs |-> up.fs]

\* create_directories(d.parent_path()) runs before the rename is tried
MoveItemResult(f, s, d, xdev) ==
  LET made == create_directories(f, Parent(d)).fs
  IN IF RenameOk(made, s, d, xdev)
       THEN [out |-> "ok", fs |-> Rename(made, s, d), log |-> << >>,
             prompted |-> FALSE]
       ELSE [out |-> "RenameFailed", fs |-> made, log |-> << >>,
             prompted |-> FALSE]

(***************************************************************************)
(* Tree Copy, implementation B                                             *)
(***************************************************************************)
\* std::filesystem::copy_file(from, to, overwrite_existing, ec)
copy_file(f, from, to) ==
  IF ~IsFile(f, from) \/ "r" \notin f[from].mode THEN [ok |-> FALSE, fs |-> f]
  ELSE IF Exists(f, to) THEN
    IF IsFile(f, to) /\ from # to /\ "w" \in f[to].mode
      THEN [ok |-> TRUE,
            fs |-> [f EXCEPT ![to].data = f[from].data, ![to].mode = f[from].mode]]
      ELSE [ok |-> FALSE, fs |-> f]
  ELSE IF CanCreate(f, to)
    THEN [ok |-> TRUE, fs |-> (to :> FileNode(f[from].data, f[from].mode)) @@ f]
    ELSE [ok |-> FALSE, fs |-> f]

RECURSIVE WalkCopy(_, _, _, _, _, _)

\* The range-for over recursive_directory_iterator(s, ec) in copyRecursively:
\* pre-order, each directory listed when the iterator enters it.  Entering a
\* directory that cannot be opened makes operator++ throw (crash).
WalkCopy(f, o, s, d, dir, names) ==
  IF names = << >> THEN [crash |-> FALSE, fs |-> f, log |-> << >>]
  ELSE
    LET it == Append(dir, Head(names))
        target == d \o SubSeq(it, Len(s) + 1, Len(it))
        c == copy_file(create_directories(f, Parent(target)).fs, it, target)
        done == IF IsDir(f, it) THEN create_directories(f, target).fs ELSE c.fs
        \* "Failed copy: ..." is printed when copy_file sets ec
        said == IF IsDir(f, it) \/ c.ok THEN << >> ELSE <<it>>
    IN IF ~IsDir(f, it)
         THEN LET rest == WalkCopy(done, o, s, d, dir, Tail(names))
              IN [rest EXCEPT !.log = said \o @]
       ELSE IF ~CanOpendir(done, it)
         THEN [crash |-> TRUE, fs |-> done, log |-> << >>]
       ELSE
         LET sub == WalkCopy(done, o, s, d, it, Readdir(done, o, it))
         IN IF sub.crash THEN sub
            ELSE LET rest == WalkCopy(sub.fs, o, s, d, dir, Tail(names))
                 IN [rest EXCEPT !.log = sub.log \o @]

\* a directory source always ends in "Copy complete." unless the walk throws
CopyRecursivelyResult(f, o, s, d) ==
  IF ~Exists(f, s)
    THEN [out |-> "SourceNotFound", fs |-> f, log |-> << >>, prompted |-> FALSE]
  ELSE IF IsDir(f, s) THEN
    LET w == IF CanOpendir(f, s) THEN WalkCopy(f, o, s, d, s, Readdir(f, o, s))
             ELSE [crash |-> FALSE, fs |-> f, log |-> << >>]
    IN [out |-> IF w.crash THEN "Crash" ELSE "ok", fs |-> w.fs,
        log |-> w.log, prompted |-> FALSE]
  ELSE
    LET c == copy_file(create_directories(f, Parent(d)).fs, s, d)
    IN [out |-> IF c.ok THEN "ok" ELSE "CopyFailed", fs |-> c.fs,
        log |-> << >>, prompted |-> FALSE]

(***************************************************************************)
(* Recursive Search                                                        *)
(***************************************************************************)
\* The characters of the entry names: "a" stands for the hidden name ".Ab",
\* "b" for the name "Bc" and "c" (met only in the listed stores) for "ab".
Spell(n) ==
  IF n = "a" THEN <<".", "A", "b">>
  ELSE IF n = "c" THEN <<"a", "b">>
  ELSE <<"B", "c">>

\* characters a search term is typed from
TermChars == {".", "a", "A", "b", "c"}

\* ::tolower on one character
tolower(c) == IF c = "A" THEN "a" ELSE IF c = "B" THEN "b" ELSE c

\* transform(begin, end, begin, ::tolower)
Lower(s) == [i \in 1..Len(s) |-> tolower(s[i])]

\* s.find(t) != string::npos
Found(s, t) ==
  /\ Len(t) <= Len(s)
  /\ \E i \in 0..(Len(s) - Len(t)) : SubSeq(s, i + 1, i + Len(t)) = t

RECURSIVE searchRecursive(_, _, _, _)
RECURSIVE SearchEntries(_, _, _, _, _)

SearchEntries_PostOrder(f, o, path, searchTerm, names) ==
  IF names = << >> THEN << >>
  ELSE
    LET fullPath == Append(path, Head(names))
        hit == IF Found(Lower(Spell(Head(names))), Lower(searchTerm))
                 THEN <<fullPath>> ELSE << >>
        below == IF IsDir(f, fullPath)
                   THEN searchRecursive(f, o, fullPath, searchTerm) ELSE << >>
    IN below \o hit \o SearchEntries(f, o, path, searchTerm, Tail(names))

\* A: the readdir loop of searchRecursive; both strings are lowered first
SearchEntries(f, o, path, searchTerm, names) ==
  IF names = << >> THEN << >>
  ELSE
    LET fullPath == Append(path, Head(names))
        hit == IF Found(Lower(Spell(Head(names))), Lower(searchTerm))
                 THEN <<fullPath>> ELSE << >>
        below == IF IsDir(f, fullPath)
                   THEN searchRecursive(f, o, fullPath, searchTerm) ELSE << >>
    IN hit \o below \o SearchEntries(f, o, path, searchTerm, Tail(names))

\* A: a directory that opendir cannot open contributes nothing
searchRecursive(f, o, path, searchTerm) ==
  IF ~CanOpendir(f, path) THEN << >>
  ELSE SearchEntries(f, o, path, searchTerm, Readdir(f, o, path))

RECURSIVE SearchWalk(_, _, _, _, _)

\* B: the loop over recursive_directory_iterator(current,
\* skip_permission_denied, ec) in searchRecursive: pre-order, a directory that
\* cannot be opened is listed and not entered; name.find(term) compares the
\* name as spelled.  The showHidden member is not read.
SearchWalk(f, o, dir, term, names) ==
  IF names = << >> THEN << >>
  ELSE
    LET it == Append(dir, Head(names))
        hit == IF Found(Spell(Head(names)), term) THEN <<it>> ELSE << >>
        below == IF CanOpendir(f, it)
                   THEN SearchWalk(f, o, it, term, Readdir(f, o, it))
                   ELSE << >>
    IN hit \o below \o SearchWalk(f, o, dir, term, Tail(names))

\* the terms typed at the prompt: up to two characters
Terms ==
  {<< >>} \cup {<<c>> : c \in TermChars}
          \cup {<<c, e>> : c \in TermChars, e \in TermChars}

(***************************************************************************)
(* The current directory                                                   *)
(***************************************************************************)
\* A keeps currentPath as a string.  It is held here as the sequence of its
\* segments, the pieces that follow each '/': "/a/b" is <<"a", "b">>, "/a/"
\* is <<"a", "">>, "/a/./.." is <<"a", ".", "..">> and "/" is << >>.
\* (Appending to "/" gives "//x" in the program; the doubled slash changes
\* neither what the string denotes nor where its last '/' lies relative to
\* the last segment, so it is left out.)
RECURSIVE Denote(_, _)

\* stat(2) on a path string: the entry it resolves to, if every step does
Denote(f, segs) ==
  IF segs = << >> THEN [ok |-> TRUE, path |-> Root]
  ELSE
    LET up == Denote(f, SubSeq(segs, 1, Len(segs) - 1))
        s == segs[Len(segs)]
    IN IF ~up.ok \/ ~IsDir(f, up.path) THEN [ok |-> FALSE, path |-> Root]
       ELSE IF s \in {"", "."} THEN up
       ELSE IF s = ".."
         THEN [ok |-> TRUE,
               path |-> IF up.path = Root THEN Root ELSE Parent(up.path)]
       ELSE [ok |-> Append(up.path, s) \in DOMAIN f, path |-> Append(up.path, s)]

\* a location in which nothing exists and nothing can be created: what a
\* path below an unresolvable currentPath amounts to
Nowhere == <<"?", "?">>

\* A: currentPath + "/" + name, as the store resolves it
UnderCurrentPath(arg) ==
  LET here == Denote(fs, currentPath)
  IN IF here.ok THEN here.path \o arg ELSE Nowhere \o arg

\* B: current / name; current is a canonical path, name a plain relative one
UnderCurrent(arg) == current \o arg

RECURSIVE LexNorm(_)

\* fs::weakly_canonical in a store without symbolic links: "." and empty
\* segments dropped, ".." removing the segment before it
LexNorm(segs) ==
  IF segs = << >> THEN << >>
  ELSE
    LET up == LexNorm(SubSeq(segs, 1, Len(segs) - 1))
        s == segs[Len(segs)]
    IN IF s \in {"", "."} THEN up
       ELSE IF s = ".." THEN (IF up = << >> THEN up ELSE SubSeq(up, 1, Len(up) - 1))
       ELSE Append(up, s)

\* arguments typed at the "change directory" prompt: abs tells a leading '/'
CdArgs ==
  { [abs |-> FALSE, segs |-> s] :
      s \in { <<"..">>, <<".">>, <<"a">>, <<"b">>, <<"a", "">>, <<"a", "..">>,
              <<"a", "b">> } }
  \cup { [abs |-> TRUE, segs |-> s] : s \in { << >>, <<"a">> } }

\* A: changeDirectory(path).  ".." cuts the string at its last '/'; other
\* arguments are taken as they are or appended.  currentPath is assigned
\* before chdir is tried; canEnter is the result of chdir (search permission
\* on the directory itself, which stat does not need; the root can always be
\* entered).
ChangeDirectoryResult(f, cur, arg, canEnter) ==
  LET newPath ==
        IF ~arg.abs /\ arg.segs = <<"..">>
          THEN (IF Len(cur) > 1 THEN SubSeq(cur, 1, Len(cur) - 1) ELSE << >>)
        ELSE IF arg.abs THEN arg.segs
        ELSE cur \o arg.segs
      st == Denote(f, newPath)
  IN IF st.ok /\ IsDir(f, st.path)
       THEN [out |-> IF canEnter \/ st.path = Root THEN "ok" ELSE "CannotAccess",
             path |-> newPath]
       ELSE [out |-> "NotFound", path |-> cur]

\* B: changeDirectory(target): the canonical form of the target is taken if
\* it is a directory; the process never enters it
ChangeDirectoryFsResult(f, cur, arg) ==
  LET newp == LexNorm(IF arg.abs THEN arg.segs ELSE cur \o arg.segs)
  IN IF IsDir(f, newp) THEN [out |-> "ok", path |-> newp]
     ELSE [out |-> "NotFound", path |-> cur]

(***************************************************************************)
(* Listing a directory                                                     *)
(***************************************************************************)
\* names of the stores that are listed
ListNames == {"a", "b", "c"}

\* the character code the string comparison works on
Code(c) ==
  CASE c = "." -> 46
    [] c = "A" -> 65
    [] c = "B" -> 66
    [] c = "a" -> 97
    [] c = "b" -> 98
    [] OTHER -> 99

\* std::string operator< : lexicographic on character codes
RECURSIVE StrLess(_, _)
StrLess(s, t) ==
  IF t = << >> THEN FALSE
  ELSE IF s = << >> THEN TRUE
  ELSE IF Head(s) # Head(t) THEN Code(Head(s)) < Code(Head(t))
  ELSE StrLess(Tail(s), Tail(t))

\* what file_size and last_write_time return for the entries of a directory;
\* a listing is ordered by one of the two, so the tables let the sizes range
\* freely and give the times the opposite order
Attrs ==
  { [n \in ListNames |-> [size |-> sz[n], mtime |-> 1 - sz[n]]]
    : sz \in [ListNames -> 0..1] }

\* every sequence that holds each member of the set S once
RECURSIVE Orders(_)
Orders(S) ==
  IF S = {} THEN {<< >>}
  ELSE UNION { {<<x>> \o q : q \in Orders(S \ {x})} : x \in S }

\* every arrangement of the entries es (their names are distinct)
Arrangements(es) == Orders({es[i] : i \in 1..Len(es)})

\* a comparator that compares names without regard to case
EntryLess_IgnoreCase(a, b, by, df) ==
  IF df /\ a.is_dir # b.is_dir THEN a.is_dir
  ELSE IF by = "SIZE" THEN a.size < b.size
  ELSE IF by = "MTIME" THEN a.mtime < b.mtime
  ELSE StrLess(Lower(a.name), Lower(b.name))

\* B: the comparator of sortEntries
EntryLess(a, b, by, df) ==
  IF df /\ a.is_dir # b.is_dir THEN a.is_dir
  ELSE IF by = "NAME" THEN StrLess(a.name, b.name)
  ELSE IF by = "SIZE" THEN a.size < b.size
  ELSE IF by = "MTIME" THEN a.mtime < b.mtime
  ELSE StrLess(a.name, b.name)

\* B: sortEntries(entries): std::sort leaves the entries in one of the
\* arrangements in which no entry is less than an earlier one
sortEntries(es, by, df) ==
  {q \in Arrangements(es) :
     \A i, j \in 1..Len(es) : i < j => ~EntryLess(q[j], q[i], by, df)}

\* B: readDirectory(p).  The iterator is made with an error_code and
\* skip_permission_denied: a path that cannot be opened yields no entry and
\* no message.  The result is the set of lists the sort may leave.
readDirectory(f, o, p, hidden, attr, by, df) ==
  IF ~Exists(f, p) THEN [out |-> "NotFound", lists |-> {<< >>}]
  ELSE
    LET names == IF CanOpendir(f, p) THEN Readdir(f, o, p) ELSE << >>
        shown == SelectSeq(names, LAMBDA n : hidden \/ Head(Spell(n)) # ".")
        res == [i \in 1..Len(shown) |->
                  LET q == Append(p, shown[i])
                  IN [name |-> Spell(shown[i]),
                      is_dir |-> IsDir(f, q),
                      size |-> IF IsDir(f, q) THEN 0 ELSE attr[shown[i]].size,
                      mtime |-> attr[shown[i]].mtime]]
    IN [out |-> "ok", lists |-> sortEntries(res, by, df)]

\* A: the comparator of listFiles: directories first, then by name
PairLess(a, b) ==
  IF a.is_dir # b.is_dir THEN a.is_dir ELSE StrLess(a.name, b.name)

\* A: listFiles(): opendir(currentPath), then every name readdir gives
\* ("." and ".." among them) with the kind stat reports, sorted
ListFilesResult(f, o, path) ==
  IF ~CanOpendir(f, path)
    THEN [out |-> "DirectoryUnreadable", lists |-> {<< >>}]
  ELSE
    LET names == Readdir(f, o, path)
        entries == << [name |-> <<".">>, is_dir |-> TRUE],
                      [name |-> <<".", ".">>, is_dir |-> TRUE] >>
                   \o [i \in 1..Len(names) |->
                         [name |-> Spell(names[i]),
                          is_dir |-> IsDir(f, Append(path, names[i]))]]
    IN [out |-> "ok",
        lists |-> {q \in Arrangements(entries) :
                     \A i, j \in 1..Len(entries) :
                        i < j => ~PairLess(q[j], q[i])}]

\* the names typed at the prompts
ArgPaths == {<<n>> : n \in Names} \cup {<<n, m>> : n \in Names, m \in Names}

(***************************************************************************)
(* Creating files; the recent-files list                                   *)
(***************************************************************************)
\* A: size_t maxRecentFiles
maxRecentFiles == 10

\* a list that is never put back in order: the path is not looked up first
addToRecentFiles_NoErase(recent, filepath) ==
  LET inserted == <<filepath>> \o recent
  IN IF Len(inserted) > maxRecentFiles
       THEN SubSeq(inserted, 1, Len(inserted) - 1)
       ELSE inserted

\* A: addToRecentFiles(filepath): find and erase, insert at the front,
\* pop_back when the list has grown past maxRecentFiles
addToRecentFiles(recent, filepath) ==
  LET hits == {i \in 1..Len(recent) : recent[i] = filepath}
      it == CHOOSE i \in hits : \A j \in hits : i <= j
      erased == IF hits # {}
                  THEN SubSeq(recent, 1, it - 1) \o SubSeq(recent, it + 1, Len(recent))
                  ELSE recent
      inserted == <<filepath>> \o erased
  IN IF Len(inserted) > maxRecentFiles
       THEN SubSeq(inserted, 1, Len(inserted) - 1)
       ELSE inserted

\* the entry a path string names when its last segment need not exist yet
CreateTarget(f, segs) ==
  LET up == Denote(f, SubSeq(segs, 1, Len(segs) - 1))
  IN IF segs # << >> /\ up.ok /\ IsDir(f, up.path)
          /\ segs[Len(segs)] \notin {"", ".", ".."}
       THEN Append(up.path, segs[Len(segs)])
       ELSE Nowhere

\* file names as they are typed: plain, or with a leading "./"
CreateArgs == ArgPaths \cup {<<".">> \o p : p \in ArgPaths}

\* A: createFile(filename): ofstream creates the file or truncates it; the
\* path string, as composed, goes to the recent-files list
CreateFileResult(f, cur, filename, recent) ==
  LET fullPath == cur \o filename
      target == CreateTarget(f, fullPath)
  IN IF CanOpenWrite(f, target)
       THEN [out |-> "ok", fs |-> OpenWrite(f, target),
             recent |-> addToRecentFiles(recent, fullPath)]
       ELSE [out |-> "CannotCreate", fs |-> f, recent |-> recent]

(***************************************************************************)
(* Directories, names, permissions, owners                                 *)
(***************************************************************************)
\* A: createDirectory(dirname): mkdir(fullPath, 0755)
CreateDirectoryResult(f, fullPath) ==
  IF CanCreate(f, fullPath)
    THEN [out |-> "ok", fs |-> (fullPath :> DirNode(RW)) @@ f]
    ELSE [out |-> "CannotCreate", fs |-> f]

\* B: makeDirectory(name): create_directories returns false when it made
\* nothing, also for a directory that is there already
MakeDirectoryResult(f, p) ==
  LET r == create_directories(f, p)
  IN IF r.ok /\ ~IsDir(f, p) THEN [out |-> "ok", fs |-> r.fs]
     ELSE [out |-> "CreateFailed", fs |-> r.fs]

\* B: createFile(name): ofstream creates the file or truncates it
CreateFileFsResult(f, p) ==
  IF CanOpenWrite(f, p) THEN [out |-> "ok", fs |-> OpenWrite(f, p)]
  ELSE [out |-> "CreateFailed", fs |-> f]

\* A: renameItem(oldName, newName): both are looked up before rename
RenameItemResult(f, oldPath, newPath) ==
  IF ~Exists(f, oldPath) THEN [out |-> "NotFound", fs |-> f]
  ELSE IF Exists(f, newPath) THEN [out |-> "AlreadyExists", fs |-> f]
  ELSE IF RenameOk(f, oldPath, newPath, FALSE)
    THEN [out |-> "ok", fs |-> Rename(f, oldPath, newPath)]
    ELSE [out |-> "CannotRename", fs |-> f]

\* B: renameItem(oldn, newn): fs::rename and its error code
RenameItemFsResult(f, a, b) ==
  IF RenameOk(f, a, b, FALSE) THEN [out |-> "ok", fs |-> Rename(f, a, b)]
  ELSE [out |-> "RenameFailed", fs |-> f]

\* mode strings typed at the prompt; "9" is not an octal number
ModeArgs == {"600", "400", "200", "000", "9"}

\* stoi(permissions, nullptr, 8): the owner's read and write bits
Octal(m) ==
  CASE m = "600" -> {"r", "w"}
    [] m = "400" -> {"r"}
    [] m = "200" -> {"w"}
    [] OTHER -> {}

\* A: changePermissions(filename, permissions): the string is parsed first
ChangePermissionsResult(f, fullPath, m) ==
  IF m = "9" THEN [out |-> "InvalidFormat", fs |-> f]
  ELSE IF Exists(f, fullPath)
    THEN [out |-> "ok", fs |-> [f EXCEPT ![fullPath].mode = Octal(m)]]
    ELSE [out |-> "CannotChange", fs |-> f]

\* B: changePermissions(target, mode_str): the path is looked up first
ChangePermissionsFsResult(f, p, m) ==
  IF ~Exists(f, p) THEN [out |-> "NotFound", fs |-> f]
  ELSE IF m = "9" THEN [out |-> "InvalidFormat", fs |-> f]
  ELSE [out |-> "ok", fs |-> [f EXCEPT ![p].mode = Octal(m)]]

\* A: changeOwner(filename, owner, group): known is what getpwnam and
\* getgrnam find, permitted whether chown is allowed to the process.  The
\* owner of an entry is not part of the store.
ChangeOwnerResult(f, fullPath, known, permitted) ==
  IF ~known THEN "InvalidOwner"
  ELSE IF Exists(f, fullPath) /\ permitted THEN "ok"
  ELSE "CannotChangeOwner"

(***************************************************************************)
(* Initial stores and arguments                                            *)
(***************************************************************************)

Store(entries) == (Root :> DirNode(RW)) @@ entries

Shapes ==
  { Store(<<"a">> :> DirNode(RW) @@ <<"a", "a">> :> FileNode(1, RW)
          @@ <<"a", "b">> :> DirNode(RW) @@ <<"a", "b", "a">> :> FileNode(2, RW)
          @@ <<"b">> :> DirNode(RW)),
    Store(<<"a">> :> DirNode(RW) @@ <<"a", "a">> :> FileNode(1, RW)
          @@ <<"a", "b">> :> DirNode(RW) @@ <<"a", "b", "a">> :> FileNode(2, RW)
          @@ <<"b">> :> DirNode(RW) @@ <<"b", "a">> :> FileNode(2, RW)),
    Store(<<"a">> :> FileNode(1, RW)
          @@ <<"b">> :> DirNode(RW) @@ <<"b", "a">> :> DirNode(RW)),
    Store(<<"a">> :> FileNode(1, RW) @@ <<"b">> :> FileNode(2, RW)),
    Store(<<"a">> :> DirNode(RW) @@ <<"a", "a">> :> DirNode(RW)
          @@ <<"a", "a", "a">> :> FileNode(1, RW)
          @@ <<"a", "b">> :> FileNode(2, RW)),
    Store(<<"a">> :> DirNode(RW)
          @@ <<"b">> :> DirNode(RW) @@ <<"b", "b">> :> DirNode(RW)) }

\* one entry of the store, other than the root, may have lost permission bits
InitStores ==
  Shapes \cup
  UNION { { [s EXCEPT ![p].mode = m] : p \in DOMAIN s \ {Root},
                                       m \in {{"r"}, {"w"}, {}} }
          : s \in Shapes }

NoCall == [op |-> "none"]

Init ==
  /\ fs \in InitStores
  /\ ord \in {<<"a", "b">>, <<"b", "a">>}
  /\ call = NoCall
  /\ pre = fs
  /\ outcome = "none"
  /\ prompted = FALSE
  /\ log = << >>
  /\ ncalls = 0
  /\ showHidden = FALSE
  /\ currentPath = << >>
  /\ current = Root
  /\ sortBy = "NAME"
  /\ dirsFirst = TRUE
  /\ recentFiles = << >>

\* the stores that are listed: three entries in the root, each a directory
\* or a file; one of the directories may have lost its read permission
ListShapes ==
  { Store([p \in {<<n>> : n \in ListNames} |->
             IF k[p[1]] THEN DirNode(RW) ELSE FileNode(1, RW)])
    : k \in [ListNames -> BOOLEAN] }

ListStores ==
  ListShapes \cup
  UNION { { [s EXCEPT ![p].mode = {"w"}] : p \in {q \in DOMAIN s \ {Root} :
                                                   IsDir(s, q)} }
          : s \in ListShapes }

\* the explorer is constructed in the directory the process was started in
InitList ==
  /\ fs \in ListStores
  /\ ord \in {<<"a", "b", "c">>, <<"c", "b", "a">>}
  /\ call = NoCall
  /\ pre = fs
  /\ outcome = "none"
  /\ prompted = FALSE
  /\ log = << >>
  /\ ncalls = 0
  /\ showHidden = FALSE
  /\ \E start \in {p \in DOMAIN fs : Len(p) <= 1 /\ IsDir(fs, p)} :
       /\ currentPath = start
       /\ current = start
  /\ sortBy = "NAME"
  /\ dirsFirst = TRUE
  /\ recentFiles = << >>

\* paths of files created earlier in the session, most recent first
EarlierFiles ==
  << <<".", "b", "b">>, <<".", "b", "a">>, <<".", "a", "b">>, <<".", "a", "a">>,
     <<".", "b">>, <<".", "a">>, <<"b", "b">>, <<"b", "a">>, <<"a", "b">>,
     <<"a", "a">> >>

\* the explorer after some files have been created (and perhaps deleted
\* again, which leaves the list as it is)
InitRecent ==
  /\ fs \in InitStores
  /\ ord \in {<<"a", "b">>, <<"b", "a">>}
  /\ call = NoCall
  /\ pre = fs
  /\ outcome = "none"
  /\ prompted = FALSE
  /\ log = << >>
  /\ ncalls = 0
  /\ showHidden = FALSE
  /\ currentPath = << >>
  /\ current = Root
  /\ sortBy = "NAME"
  /\ dirsFirst = TRUE
  /\ recentFiles \in {SubSeq(EarlierFiles, k, Len(EarlierFiles)) :
                        k \in {1, 2, Len(EarlierFiles) + 1}}

\* a store with one more entry: a symbolic link at p to a directory t that
\* does not hold the link
LinkStores ==
  UNION { { (x[1] :> LinkNode(x[2])) @@ s :
              x \in {y \in ArgPaths \X DOMAIN s :
                       /\ y[1] \notin DOMAIN s /\ IsDir(s, Parent(y[1]))
                       /\ y[2] # Root /\ IsDir(s, y[2])
                       /\ ~IsPrefix(y[2], y[1])} }
          : s \in Shapes }

InitLinks ==
  /\ fs \in LinkStores
  /\ ord \in {<<"a", "b">>, <<"b", "a">>}
  /\ call = NoCall
  /\ pre = fs
  /\ outcome = "none"
  /\ prompted = FALSE
  /\ log = << >>
  /\ ncalls = 0
  /\ showHidden = FALSE
  /\ currentPath = << >>
  /\ current = Root
  /\ sortBy = "NAME"
  /\ dirsFirst = TRUE
  /\ recentFiles = << >>

\* a freshly constructed explorer at the root of a store in which nothing
\* has lost a permission
InitFrame ==
  /\ fs \in Shapes
  /\ ord = <<"a", "b">>
  /\ call = NoCall
  /\ pre = fs
  /\ outcome = "none"
  /\ prompted = FALSE
  /\ log = << >>
  /\ ncalls = 0
  /\ showHidden = FALSE
  /\ currentPath = << >>
  /\ current = Root
  /\ sortBy = "NAME"
  /\ dirsFirst = TRUE
  /\ recentFiles = << >>

\* A: deleteItem(name); confirm is the answer given if the prompt appears
deleteItem ==
  /\ ncalls < MaxCalls
  /\ \E path \in ArgPaths, confirm \in BOOLEAN :
       LET fullPath == UnderCurrentPath(path)
           r == DeleteItemResult(fs, ord, fullPath, confirm)
       IN /\ call' = [op |-> "deleteItem", path |-> fullPath, confirm |-> confirm]
          /\ pre' = fs
          /\ fs' = r.fs
          /\ outcome' = r.out
          /\ prompted' = r.prompted
          /\ log' = r.log
  /\ ncalls' = ncalls + 1
  /\ UNCHANGED <<ord, showHidden, currentPath, current, sortBy, dirsFirst,
                 recentFiles>>

\* B: removeRecursively(name); confirm is the answer given to the prompt
removeRecursively ==
  /\ ncalls < MaxCalls
  /\ \E path \in ArgPaths, confirm \in BOOLEAN :
       LET p == UnderCurrent(path)
           r == RemoveRecursivelyResult(fs, ord, p, confirm)
       IN /\ call' = [op |-> "removeRecursively", path |-> p, confirm |-> confirm]
          /\ pre' = fs
          /\ fs' = r.fs
          /\ outcome' = r.out
          /\ prompted' = r.prompted
          /\ log' = r.log
  /\ ncalls' = ncalls + 1
  /\ UNCHANGED <<ord, showHidden, currentPath, current, sortBy, dirsFirst,
                 recentFiles>>

\* A: copyFile(source, destination); wfail: writing the content fails
copyFile ==
  /\ ncalls = 0
  /\ \E src \in ArgPaths, dst \in ArgPaths, wfail \in BOOLEAN :
       LET srcPath == UnderCurrentPath(src)
           destPath == UnderCurrentPath(dst)
           r == CopyFileResult(fs, ord, srcPath, destPath, wfail)
       IN /\ call' = [op |-> "copyFile", src |-> srcPath, dst |-> destPath,
                      wfail |-> wfail]
          /\ pre' = fs
          /\ fs' = r.fs
          /\ outcome' = r.out
          /\ prompted' = r.prompted
          /\ log' = r.log
  /\ ncalls' = ncalls + 1
  /\ UNCHANGED <<ord, showHidden, currentPath, current, sortBy, dirsFirst,
                 recentFiles>>

\* B: copyRecursively(src, dst)
copyRecursively ==
  /\ ncalls = 0
  /\ \E src \in ArgPaths, dst \in ArgPaths :
       LET s == UnderCurrent(src)
           d == UnderCurrent(dst)
           r == CopyRecursivelyResult(fs, ord, s, d)
       IN /\ call' = [op |-> "copyRecursively", src |-> s, dst |-> d]
          /\ pre' = fs
          /\ fs' = r.fs
          /\ outcome' = r.out
          /\ prompted' = r.prompted
          /\ log' = r.log
  /\ ncalls' = ncalls + 1
  /\ UNCHANGED <<ord, showHidden, currentPath, current, sortBy, dirsFirst,
                 recentFiles>>

\* A: moveFile(source, destination); xdev: rename meets EXDEV; wfail:
\* writing the content fails in the copy that follows
moveFile ==
  /\ ncalls = 0
  /\ \E src \in ArgPaths, dst \in ArgPaths, xdev \in BOOLEAN, wfail \in BOOLEAN :
       LET srcPath == UnderCurrentPath(src)
           destPath == UnderCurrentPath(dst)
           r == MoveFileResult(fs, ord, srcPath, destPath, xdev, wfail)
       IN /\ call' = [op |-> "moveFile", src |-> srcPath, dst |-> destPath,
                      xdev |-> xdev, wfail |-> wfail]
          /\ pre' = fs
          /\ fs' = r.fs
          /\ outcome' = r.out
          /\ prompted' = r.prompted
          /\ log' = r.log
  /\ ncalls' = ncalls + 1
  /\ UNCHANGED <<ord, showHidden, currentPath, current, sortBy, dirsFirst,
                 recentFiles>>

\* B: moveItem(src, dst); xdev: rename meets EXDEV
moveItem ==
  /\ ncalls = 0
  /\ \E src \in ArgPaths, dst \in ArgPaths, xdev \in BOOLEAN :
       LET s == UnderCurrent(src)
           d == UnderCurrent(dst)
           r == MoveItemResult(fs, s, d, xdev)
       IN /\ call' = [op |-> "moveItem", src |-> s, dst |-> d, xdev |-> xdev]
          /\ pre' = fs
          /\ fs' = r.fs
          /\ outcome' = r.out
          /\ prompted' = r.prompted
          /\ log' = r.log
  /\ ncalls' = ncalls + 1
  /\ UNCHANGED <<ord, showHidden, currentPath, current, sortBy, dirsFirst,
                 recentFiles>>

\* A: searchFiles(searchTerm) from the menu: the walk starts at currentPath
searchFiles ==
  /\ ncalls < MaxCalls
  /\ \E term \in Terms :
       LET basePath == UnderCurrentPath(<< >>)
       IN /\ call' = [op |-> "searchFiles", current |-> basePath, term |-> term]
          /\ log' = searchRecursive(fs, ord, basePath, term)
  /\ pre' = fs
  /\ outcome' = "ok"
  /\ prompted' = FALSE
  /\ ncalls' = ncalls + 1
  /\ UNCHANGED <<fs, ord, showHidden, currentPath, current, sortBy, dirsFirst,
                 recentFiles>>

\* B: searchRecursive(term) from the menu: the walk starts at current
searchRecursive_fs ==
  /\ ncalls < MaxCalls
  /\ \E term \in Terms :
       /\ call' = [op |-> "searchRecursive", current |-> current, term |-> term]
       /\ log' = IF CanOpendir(fs, current)
                   THEN SearchWalk(fs, ord, current, term,
                                   Readdir(fs, ord, current))
                   ELSE << >>
  /\ pre' = fs
  /\ outcome' = "ok"
  /\ prompted' = FALSE
  /\ ncalls' = ncalls + 1
  /\ UNCHANGED <<fs, ord, showHidden, currentPath, current, sortBy, dirsFirst,
                 recentFiles>>

\* A: changeDirectory(path); from is currentPath before the call
changeDirectory ==
  /\ ncalls < MaxCalls
  /\ \E arg \in CdArgs, canEnter \in BOOLEAN :
       LET r == ChangeDirectoryResult(fs, currentPath, arg, canEnter)
       IN /\ call' = [op |-> "changeDirectory", arg |-> arg, from |-> currentPath,
                      canEnter |-> canEnter]
          /\ currentPath' = r.path
          /\ outcome' = r.out
  /\ pre' = fs
  /\ prompted' = FALSE
  /\ log' = << >>
  /\ ncalls' = ncalls + 1
  /\ UNCHANGED <<fs, ord, showHidden, current, sortBy, dirsFirst, recentFiles>>

\* B: changeDirectory(target); from is current before the call
changeDirectory_fs ==
  /\ ncalls < MaxCalls
  /\ \E arg \in CdArgs :
       LET r == ChangeDirectoryFsResult(fs, current, arg)
       IN /\ call' = [op |-> "changeDirectory_fs", arg |-> arg, from |-> current]
          /\ current' = r.path
          /\ outcome' = r.out
  /\ pre' = fs
  /\ prompted' = FALSE
  /\ log' = << >>
  /\ ncalls' = ncalls + 1
  /\ UNCHANGED <<fs, ord, showHidden, currentPath, sortBy, dirsFirst,
                 recentFiles>>

\* B: toggleHidden()
toggleHidden ==
  /\ showHidden' = ~showHidden
  /\ UNCHANGED <<fs, ord, call, pre, outcome, prompted, log, ncalls,
                 currentPath, current, sortBy, dirsFirst, recentFiles>>

\* B: setSort(s, df) from the menu
setSort ==
  /\ \E s \in {"NAME", "SIZE", "MTIME"}, df \in BOOLEAN :
       /\ sortBy' = s
       /\ dirsFirst' = df
       /\ call' = [op |-> "setSort", sortBy |-> s, dirsFirst |-> df]
  /\ pre' = fs
  /\ outcome' = "ok"
  /\ prompted' = FALSE
  /\ log' = << >>
  /\ UNCHANGED <<fs, ord, ncalls, showHidden, currentPath, current,
                 recentFiles>>

\* A: listFiles(); the listing is left in log.  A listing changes nothing
\* and is not counted among the calls of a behaviour.
listFiles ==
  /\ LET path == UnderCurrentPath(<< >>)
         r == ListFilesResult(fs, ord, path)
     IN /\ call' = [op |-> "listFiles", path |-> path]
        /\ outcome' = r.out
        /\ log' \in r.lists
  /\ pre' = fs
  /\ prompted' = FALSE
  /\ UNCHANGED <<fs, ord, ncalls, showHidden, currentPath, current, sortBy,
                 dirsFirst, recentFiles>>

\* B: list(); attr is what the store reports for sizes and times
list ==
  /\ \E attr \in Attrs :
       LET r == readDirectory(fs, ord, current, showHidden, attr, sortBy,
                              dirsFirst)
       IN /\ call' = [op |-> "list", path |-> current, attr |-> attr,
                      sortBy |-> sortBy, dirsFirst |-> dirsFirst]
          /\ outcome' = r.out
          /\ log' \in r.lists
  /\ pre' = fs
  /\ prompted' = FALSE
  /\ UNCHANGED <<fs, ord, ncalls, showHidden, currentPath, current, sortBy,
                 dirsFirst, recentFiles>>

\* A: createFile(filename); recent is the list before the call
createFile ==
  /\ ncalls < MaxCalls
  /\ \E filename \in CreateArgs :
       LET r == CreateFileResult(fs, currentPath, filename, recentFiles)
       IN /\ call' = [op |-> "createFile", path |-> currentPath \o filename,
                      recent |-> recentFiles]
          /\ fs' = r.fs
          /\ outcome' = r.out
          /\ recentFiles' = r.recent
  /\ pre' = fs
  /\ prompted' = FALSE
  /\ log' = << >>
  /\ ncalls' = ncalls + 1
  /\ UNCHANGED <<ord, showHidden, currentPath, current, sortBy, dirsFirst>>

\* A: createDirectory(dirname)
createDirectory ==
  /\ ncalls < MaxCalls
  /\ \E dirname \in ArgPaths :
       LET fullPath == UnderCurrentPath(dirname)
           r == CreateDirectoryResult(fs, fullPath)
       IN /\ call' = [op |-> "createDirectory", path |-> fullPath]
          /\ fs' = r.fs
          /\ outcome' = r.out
  /\ pre' = fs
  /\ prompted' = FALSE
  /\ log' = << >>
  /\ ncalls' = ncalls + 1
  /\ UNCHANGED <<ord, showHidden, currentPath, current, sortBy, dirsFirst,
                 recentFiles>>

\* B: makeDirectory(name)
makeDirectory ==
  /\ ncalls < MaxCalls
  /\ \E name \in ArgPaths :
       LET p == UnderCurrent(name)
           r == MakeDirectoryResult(fs, p)
       IN /\ call' = [op |-> "makeDirectory", path |-> p]
          /\ fs' = r.fs
          /\ outcome' = r.out
  /\ pre' = fs
  /\ prompted' = FALSE
  /\ log' = << >>
  /\ ncalls' = ncalls + 1
  /\ UNCHANGED <<ord, showHidden, currentPath, current, sortBy, dirsFirst,
                 recentFiles>>

\* B: createFile(name)
createFile_fs ==
  /\ ncalls < MaxCalls
  /\ \E name \in ArgPaths :
       LET p == UnderCurrent(name)
           r == CreateFileFsResult(fs, p)
       IN /\ call' = [op |-> "createFile_fs", path |-> p]
          /\ fs' = r.fs
          /\ outcome' = r.out
  /\ pre' = fs
  /\ prompted' = FALSE
  /\ log' = << >>
  /\ ncalls' = ncalls + 1
  /\ UNCHANGED <<ord, showHidden, currentPath, current, sortBy, dirsFirst,
                 recentFiles>>

\* A: renameItem(oldName, newName)
renameItem ==
  /\ ncalls < MaxCalls
  /\ \E oldName \in ArgPaths, newName \in ArgPaths :
       LET oldPath == UnderCurrentPath(oldName)
           newPath == UnderCurrentPath(newName)
           r == RenameItemResult(fs, oldPath, newPath)
       IN /\ call' = [op |-> "renameItem", src |-> oldPath, dst |-> newPath]
          /\ fs' = r.fs
          /\ outcome' = r.out
  /\ pre' = fs
  /\ prompted' = FALSE
  /\ log' = << >>
  /\ ncalls' = ncalls + 1
  /\ UNCHANGED <<ord, showHidden, currentPath, current, sortBy, dirsFirst,
                 recentFiles>>

\* B: renameItem(oldn, newn)
renameItem_fs ==
  /\ ncalls < MaxCalls
  /\ \E oldn \in ArgPaths, newn \in ArgPaths :
       LET a == UnderCurrent(oldn)
           b == UnderCurrent(newn)
           r == RenameItemFsResult(fs, a, b)
       IN /\ call' = [op |-> "renameItem_fs", src |-> a, dst |-> b]
          /\ fs' = r.fs
          /\ outcome' = r.out
  /\ pre' = fs
  /\ prompted' = FALSE
  /\ log' = << >>
  /\ ncalls' = ncalls + 1
  /\ UNCHANGED <<ord, showHidden, currentPath, current, sortBy, dirsFirst,
                 recentFiles>>

\* A: changePermissions(filename, permissions)
changePermissions ==
  /\ ncalls < MaxCalls
  /\ \E filename \in ArgPaths, m \in ModeArgs :
       LET fullPath == UnderCurrentPath(filename)
           r == ChangePermissionsResult(fs, fullPath, m)
       IN /\ call' = [op |-> "changePermissions", path |-> fullPath, mode |-> m]
          /\ fs' = r.fs
          /\ outcome' = r.out
  /\ pre' = fs
  /\ prompted' = FALSE
  /\ log' = << >>
  /\ ncalls' = ncalls + 1
  /\ UNCHANGED <<ord, showHidden, currentPath, current, sortBy, dirsFirst,
                 recentFiles>>

\* B: changePermissions(target, mode_str)
changePermissions_fs ==
  /\ ncalls < MaxCalls
  /\ \E target \in ArgPaths, m \in ModeArgs :
       LET p == UnderCurrent(target)
           r == ChangePermissionsFsResult(fs, p, m)
       IN /\ call' = [op |-> "changePermissions_fs", path |-> p, mode |-> m]
          /\ fs' = r.fs
          /\ outcome' = r.out
  /\ pre' = fs
  /\ prompted' = FALSE
  /\ log' = << >>
  /\ ncalls' = ncalls + 1
  /\ UNCHANGED <<ord, showHidden, currentPath, current, sortBy, dirsFirst,
                 recentFiles>>

\* A: changeOwner(filename, owner, group)
changeOwner ==
  /\ ncalls < MaxCalls
  /\ \E filename \in ArgPaths, known \in BOOLEAN, permitted \in BOOLEAN :
       LET fullPath == UnderCurrentPath(filename)
       IN /\ call' = [op |-> "changeOwner", path |-> fullPath,
                      known |-> known, permitted |-> permitted]
          /\ outcome' = ChangeOwnerResult(fs, fullPath, known, permitted)
  /\ pre' = fs
  /\ prompted' = FALSE
  /\ log' = << >>
  /\ ncalls' = ncalls + 1
  /\ UNCHANGED <<fs, ord, showHidden, currentPath, current, sortBy, dirsFirst,
                 recentFiles>>

NextRemove == deleteItem \/ removeRecursively

NextCopy == copyFile \/ copyRecursively

NextMove == moveFile \/ moveItem

NextSearch == searchFiles \/ searchRecursive_fs \/ toggleHidden

NextNav == changeDirectory \/ changeDirectory_fs

NextList == listFiles \/ list \/ setSort \/ toggleHidden

NextFile ==
  createFile \/ createDirectory \/ createFile_fs \/ makeDirectory
  \/ renameItem \/ renameItem_fs \/ changePermissions
  \/ changePermissions_fs \/ changeOwner

\* the operations that work below the current directory, and the change of
\* directory
NextFrame ==
  listFiles \/ list \/ NextFile \/ NextRemove \/ NextCopy \/ NextMove
  \/ searchFiles \/ searchRecursive_fs \/ NextNav

Next ==
  NextRemove \/ NextCopy \/ NextMove \/ NextSearch \/ NextNav \/ NextList
  \/ NextFile

SpecRemove == Init /\ [][NextRemove]_vars

SpecRemoveLinks == InitLinks /\ [][NextRemove]_vars

SpecCopy == Init /\ [][NextCopy]_vars

SpecMove == Init /\ [][NextMove]_vars

SpecCopyRemove == Init /\ [][NextCopy \/ NextRemove]_vars

SpecSearch == Init /\ [][NextSearch]_vars

SpecNav == Init /\ [][NextNav]_vars

SpecList == InitList /\ [][NextList]_vars

SpecRecent == InitRecent /\ [][createFile]_vars

SpecFrame == InitFrame /\ [][NextFrame]_vars

Spec == Init /\ [][Next]_vars

(***************************************************************************)
(* Properties                                                              *)
(***************************************************************************)
IsMove == call.op \in {"moveFile", "moveItem"}

IsRemove == call.op \in {"deleteItem", "removeRecursively"}

IsCopy == call.op \in {"copyFile", "copyRecursively"}

\* every entry that was at or below p before the call is still there, unchanged
Kept(p) == \A q \in Below(pre, p) : q \in DOMAIN fs /\ fs[q] = pre[q]

\* moveItem reports every failure the same way ("Move/rename failed"); that
\* report is taken for whichever error kind a claim names.
MoveFailsWith(kind) ==
  \/ call.op = "moveFile" /\ outcome = kind
  \/ call.op = "moveItem" /\ outcome = "RenameFailed"

\* C1: in moveFile's copy-then-delete fallback no entry of the source is
\* removed unless the copy reported success, and after a failed copy the
\* source subtree is exactly what it was before the call.
C1_FallbackLeavesSourceAsItWas ==
  call.op = "moveFile" =>
    /\ outcome \notin {"ok", "CopiedButSourceRetained"} => Kept(call.src)
    /\ outcome = "MoveFailed" =>
         SubTree(fs, call.src) = SubTree(pre, call.src)

\* no entry of the store lacks a permission bit
AllPermitted(f) == \A q \in DOMAIN f : f[q].mode = RW

\* C2: a move of an existing src to an existing directory dst without a child
\* named basename(src) ends with src gone and dst/basename(src) holding the
\* tree that was at src.  (Stated for the moves that can be carried out: dst
\* is not src or inside src, and no permission stands in the way.)
C2_MoveIntoDirectory ==
  (/\ IsMove
   /\ Exists(pre, call.src)
   /\ IsDir(pre, call.dst)
   /\ ~Exists(pre, Append(call.dst, BaseName(call.src)))
   /\ ~IsPrefix(call.src, call.dst)
   /\ AllPermitted(pre))
  => /\ ~Exists(fs, call.src)
     /\ Exists(fs, Append(call.dst, BaseName(call.src)))
     /\ SubTree(fs, Append(call.dst, BaseName(call.src)))
          = SubTree(pre, call.src)

\* C3: when dst is an existing directory and dst/basename(src) exists, the
\* move fails with DestinationExists and the store is what it was.
C3_DestinationExists ==
  (/\ IsMove
   /\ Exists(pre, call.src)
   /\ IsDir(pre, call.dst)
   /\ Exists(pre, Append(call.dst, BaseName(call.src))))
  => MoveFailsWith("DestinationExists") /\ fs = pre

\* C4: when dst is an existing regular file the move fails with
\* DestinationIsFile; dst keeps its content and src is unchanged.  (Stated
\* for src and dst naming different entries.)
C4_DestinationIsFile ==
  (IsMove /\ Exists(pre, call.src) /\ IsFile(pre, call.dst) /\ call.src # call.dst)
  => /\ MoveFailsWith("DestinationIsFile")
     /\ Exists(fs, call.dst) /\ fs[call.dst] = pre[call.dst]
     /\ SubTree(fs, call.src) = SubTree(pre, call.src)

\* C5: a move whose source does not exist fails with SourceNotFound and
\* leaves the store as it was: nothing is created, renamed, copied or deleted.
C5_MissingSourceNoMutation ==
  (IsMove /\ ~Exists(pre, call.src))
  => MoveFailsWith("SourceNotFound") /\ fs = pre

NonEmptyDir(f, p) == IsDir(f, p) /\ Children(f, p) # {}

UnconfirmedOnNonEmpty == IsRemove /\ NonEmptyDir(pre, call.path) /\ ~call.confirm

\* C6: remove on a non-empty directory without confirmation returns
\* ConfirmationRequired and changes nothing; the same unconfirmed call made
\* again has the same outcome and leaves the same store.
C6_UnconfirmedRemoveIsNoOp ==
  /\ [](UnconfirmedOnNonEmpty => outcome = "ConfirmationRequired" /\ fs = pre)
  /\ [][(UnconfirmedOnNonEmpty /\ call' = call)
          => (outcome' = outcome /\ fs' = fs /\ fs' = pre)]_vars

C6_Witness ==
  /\ ncalls = 2
  /\ UnconfirmedOnNonEmpty
  /\ outcome = "ConfirmationRequired"
  /\ prompted
  /\ fs = pre

\* the remove was authorised and went into the directory
AuthorizedRecursive ==
  IsRemove /\ call.confirm /\ IsDir(pre, call.path) /\ prompted

\* the children of directory d before the call that are still there, in
\* enumeration order
Survivors(d) == SelectSeq(Readdir(pre, ord, d), LAMBDA n : Append(d, n) \in DOMAIN fs)

\* C7: when a child deletion fails during an authorised recursive remove, the
\* siblings enumerated after the failed child are not touched, the outcome is
\* PartialDeleteFailure, and the directory holding the failed child and all
\* its ancestors up to the requested path stay in place.
C7_FailureStopsSiblings ==
  AuthorizedRecursive =>
    \A d \in Below(pre, call.path) :
      (IsDir(pre, d) /\ Survivors(d) # << >>) =>
        /\ outcome = "PartialDeleteFailure"
        /\ \A up \in Below(pre, call.path) :
             IsPrefix(up, d) => (up \in DOMAIN fs /\ fs[up] = pre[up])
        /\ \A i \in 2..Len(Survivors(d)) : Kept(Append(d, Survivors(d)[i]))
        /\ \A n \in Names :
             (Append(d, n) \in DOMAIN pre /\ Append(d, n) \notin DOMAIN fs) =>
               \A i \in 1..Len(ord), j \in 1..Len(ord) :
                 (ord[i] = n /\ ord[j] = Head(Survivors(d))) => i < j

C7_Witness ==
  /\ AuthorizedRecursive
  /\ outcome = "PartialDeleteFailure"
  /\ \E d \in Below(pre, call.path) :
       /\ Len(Survivors(d)) = 2
       /\ ~Kept(Append(d, Head(Survivors(d))))
       /\ Kept(Append(d, Survivors(d)[2]))

LogSet == {log[i] : i \in 1..Len(log)}

\* C8: an authorised recursive remove deletes depth-first: an entry is removed
\* only after everything below it, the requested directory is removed last,
\* and on success neither the path nor any descendant exists.  (log is the
\* order of the removals; with every permission granted the call succeeds.)
C8_DepthFirst ==
  (IsRemove /\ call.confirm /\ IsDir(pre, call.path)) =>
    /\ DOMAIN fs = DOMAIN pre \ LogSet
    /\ AllPermitted(pre) => outcome = "ok"
    /\ \A i \in 1..Len(log) :
         \A q \in Below(pre, log[i]) \ {log[i]} :
           \E j \in 1..(i - 1) : log[j] = q
    /\ outcome = "ok" =>
         /\ Below(fs, call.path) = {}
         /\ log # << >> /\ log[Len(log)] = call.path

C8_Witness ==
  /\ IsRemove /\ call.confirm /\ prompted
  /\ outcome = "ok"
  /\ Len(log) >= 4
  /\ \E q \in Below(pre, call.path) : Len(q) = Len(call.path) + 2
  /\ Below(fs, call.path) = {}

C10_MissingPathRejected ==
  /\ (IsCopy /\ ~Exists(pre, call.src)) =>
       (outcome = "SourceNotFound" /\ fs = pre /\ ~prompted)
  /\ (IsRemove /\ ~Exists(pre, call.path)) =>
       (outcome = "NotFound" /\ fs = pre /\ ~prompted)

C10_Witness ==
  /\ ncalls = 2
  /\ IsRemove /\ call.confirm
  /\ ~Exists(pre, call.path)
  /\ Exists(pre, Parent(call.path))
  /\ outcome = "NotFound"
  /\ ~prompted
  /\ fs = pre

\* the destination path that corresponds to the source entry q
Target(q) == call.dst \o SubSeq(q, Len(call.src) + 1, Len(q))

\* a copy of a directory to a destination that does not exist yet, can be
\* created and lies outside the source
CopiesFreshTree ==
  /\ IsCopy
  /\ IsDir(pre, call.src)
  /\ pre[call.src].mode = RW
  /\ ~Exists(pre, call.dst)
  /\ CanCreate(pre, call.dst)
  /\ ~IsPrefix(call.src, call.dst)

\* the entry q of the source is at its place in the destination
Copied(q) ==
  /\ Target(q) \in DOMAIN fs
  /\ fs[Target(q)].kind = pre[q].kind
  /\ fs[Target(q)].data = pre[q].data

\* C11: when a child of the copied directory cannot be copied (it is
\* unreadable), every sibling whose subtree is fully readable is in the
\* destination when the call returns, and the outcome is a failure or lists
\* the failed child.
C11_CopyContinuesAfterFailure ==
  CopiesFreshTree =>
    \A c \in Children(pre, call.src), s \in Children(pre, call.src) :
      ( /\ "r" \notin pre[c].mode
        /\ s # c
        /\ \A q \in Below(pre, s) : pre[q].mode = RW )
      => /\ \A q \in Below(pre, s) : Copied(q)
         /\ (outcome = "CopyFailed" \/ c \in LogSet)

\* C12: a copy of a directory whose entries are all readable, to a fresh
\* destination, reports success without failures and leaves at the
\* destination exactly the relative paths of the source, with the same kinds
\* and file contents.
C12_CopyReplicatesTree ==
  ( /\ CopiesFreshTree
    /\ \A q \in Below(pre, call.src) : pre[q].mode = RW )
  => /\ outcome = "ok"
     /\ log = << >>
     /\ \A q \in Below(pre, call.src) : Copied(q)
     /\ Below(fs, call.dst) = {Target(q) : q \in Below(pre, call.src)}

\* C13: after a copy of a regular file that reports success, the destination
\* is a regular file with the content and the permission bits the source had.
C13_FileCopyFidelity ==
  (IsCopy /\ IsFile(pre, call.src) /\ outcome = "ok")
  => /\ IsFile(fs, call.dst)
     /\ fs[call.dst].data = pre[call.src].data
     /\ fs[call.dst].mode = pre[call.src].mode

\* C14: a copy of a readable regular file to a destination whose parent
\* directory is missing (below the writable root) creates the parent and
\* succeeds in writing the file there.
C14_CreatesMissingAncestors ==
  ( /\ IsCopy
    /\ IsFile(pre, call.src)
    /\ "r" \in pre[call.src].mode
    /\ Len(call.dst) = 2
    /\ ~Exists(pre, Parent(call.dst)) )
  => /\ outcome = "ok"
     /\ IsDir(fs, Parent(call.dst))
     /\ IsFile(fs, call.dst)
     /\ fs[call.dst].data = pre[call.src].data

\* C15: after a copy call, whatever its outcome, every path that existed
\* before is still there, and the source subtree has the same entries with
\* the same kinds, contents and permission bits.
C15_CopyNeverDeletes ==
  IsCopy =>
    /\ DOMAIN pre \subseteq DOMAIN fs
    /\ Exists(pre, call.src) =>
         (Kept(call.src) /\ Below(fs, call.src) = Below(pre, call.src))

\* C16: a copy reports success only if every entry of the source, at every
\* depth, is at its place in the destination.
C16_NoSilentFailure ==
  (IsCopy /\ outcome = "ok")
  => /\ Exists(pre, call.src)
     /\ \A q \in Below(pre, call.src) :
          Target(q) \in DOMAIN fs /\ fs[Target(q)].kind = pre[q].kind

IsSearch == call.op \in {"searchFiles", "searchRecursive"}

\* q is an entry strictly below the directory the search started in
StrictlyBelow(q) ==
  q \in DOMAIN pre /\ Len(q) > Len(call.current) /\ IsPrefix(call.current, q)

\* every directory from the start of the search down to q's parent can be read
Walked(q) ==
  \A k \in Len(call.current)..(Len(q) - 1) : CanOpendir(pre, SubSeq(q, 1, k))

\* the base name of q contains the term, compared without regard to case
Matches(q) == Found(Lower(Spell(BaseName(q))), Lower(call.term))

\* q, or a directory on the way from the start of the search to q, is hidden
Hidden(q) == \E k \in (Len(call.current) + 1)..Len(q) : Spell(q[k])[1] = "."

\* C17: a search returns, each once, exactly the entries strictly below its
\* starting directory (reached through readable directories) whose base name
\* contains the term without regard to case.
C17_SearchExact ==
  IsSearch =>
    /\ LogSet = {q \in DOMAIN pre : StrictlyBelow(q) /\ Walked(q) /\ Matches(q)}
    /\ \A i, j \in 1..Len(log) : log[i] = log[j] => i = j

\* C18: when the searched tree holds a directory that cannot be read, the
\* search does not fail, returns nothing from below that directory, and
\* returns every matching entry that is not below an unreadable directory.
C18_UnreadableSkipped ==
  ( /\ IsSearch
    /\ \E u \in DOMAIN pre : StrictlyBelow(u) /\ IsDir(pre, u) /\ ~CanOpendir(pre, u) )
  => /\ outcome = "ok"
     /\ \A i \in 1..Len(log) : Walked(log[i])
     /\ \A q \in DOMAIN pre :
          (StrictlyBelow(q) /\ Walked(q) /\ Matches(q)) => q \in LogSet

\* C19: a search returns every matching entry that is hidden or lies below a
\* hidden directory, whatever the value of showHidden.
C19_HiddenSeen ==
  IsSearch =>
    \A q \in DOMAIN pre :
      (StrictlyBelow(q) /\ Walked(q) /\ Matches(q) /\ Hidden(q)) => q \in LogSet

\* position of a name in the enumeration order of readdir
Pos(n) == CHOOSE k \in 1..Len(ord) : ord[k] = n

\* first component in which two paths differ, neither a prefix of the other
Diverge(p, q) ==
  CHOOSE k \in 1..Len(p) :
    k <= Len(q) /\ p[k] # q[k] /\ SubSeq(p, 1, k - 1) = SubSeq(q, 1, k - 1)

InPreOrder ==
  \A i, j \in 1..Len(log) :
    i < j =>
      /\ ~IsPrefix(log[j], log[i])
      /\ ~IsPrefix(log[i], log[j]) =>
           Pos(log[i][Diverge(log[i], log[j])]) < Pos(log[j][Diverge(log[i], log[j])])

\* C20: in the result of a search a directory comes before every result
\* below it, the results of one child's subtree come before those of any
\* sibling enumerated later, and a search repeated on the unchanged tree
\* with the same term returns the same sequence.
C20_PreOrder ==
  /\ [](IsSearch => InPreOrder)
  /\ [][(IsSearch /\ call' = call /\ fs' = fs /\ ncalls' # ncalls) => log' = log]_vars

\* a second search whose result holds a directory, an entry below it and an
\* entry of a later sibling
C20_Witness ==
  /\ IsSearch
  /\ ncalls = 2
  /\ \E i, j, k \in 1..Len(log) :
       /\ i < j /\ j < k
       /\ IsPrefix(log[i], log[j])
       /\ ~IsPrefix(log[i], log[k])

\* the directory a stored current path denotes, for either implementation
DenotedBy(f, path) == Denote(f, path).path

\* C27: a changeDirectory call that reports an error leaves the current path
\* as it was before the call.
C27_FailedChangeKeepsPath ==
  /\ (call.op = "changeDirectory" /\ outcome # "ok") => currentPath = call.from
  /\ (call.op = "changeDirectory_fs" /\ outcome # "ok") => current = call.from

\* C28: changeDirectory("..") from a current path that denotes the directory
\* D, with the parent of D enterable, succeeds and leaves a current path that
\* denotes the parent of D (the root when D is the root).
C28_DotDotGoesToParent ==
  LET here == DenotedBy(pre, call.from)
      up == IF here = Root THEN Root ELSE Parent(here)
  IN /\ ( /\ call.op = "changeDirectory"
          /\ call.arg = [abs |-> FALSE, segs |-> <<"..">>]
          /\ call.canEnter
          /\ Denote(pre, call.from).ok )
        => (outcome = "ok" /\ Denote(fs, currentPath).ok
            /\ DenotedBy(fs, currentPath) = up)
     /\ ( /\ call.op = "changeDirectory_fs"
          /\ call.arg = [abs |-> FALSE, segs |-> <<"..">>]
          /\ IsDir(pre, call.from) )
        => (outcome = "ok" /\ current = up)

(***************************************************************************)
(* Listing                                                                 *)
(***************************************************************************)
IsListing == call.op \in {"listFiles", "list"}

\* C22: listing a path that cannot be opened (it does not exist, is not a
\* directory, or may not be read) reports an error; it is never shown as a
\* directory that was listed and found empty.
C22_UnopenableListingReported ==
  (IsListing /\ ~CanOpendir(pre, call.path)) => outcome # "ok"

\* the order the listing is asked for: A always lists directories first and
\* by name
ListedDirsFirst == IF call.op = "list" THEN call.dirsFirst ELSE TRUE

ListedBy == IF call.op = "list" THEN call.sortBy ELSE "NAME"

\* s is t, or comes before t in the lexicographic order of character codes
NameLeq(s, t) ==
  \/ s = t
  \/ \E k \in 0..Len(s) :
       /\ k <= Len(t)
       /\ \A i \in 1..k : s[i] = t[i]
       /\ \/ k = Len(s) /\ k < Len(t)
          \/ k < Len(s) /\ k < Len(t) /\ Code(s[k + 1]) < Code(t[k + 1])

KeyLeq(a, b) ==
  CASE ListedBy = "NAME" -> NameLeq(a.name, b.name)
    [] ListedBy = "SIZE" -> a.size <= b.size
    [] OTHER -> a.mtime <= b.mtime

\* C24: in a listing, with directories-first on every directory precedes
\* every non-directory; entries not separated by that rule are in
\* non-decreasing order of the selected key (name by character code, size,
\* or modification time); with directories-first off the whole list is in
\* the order of the key.
C24_SortedListing ==
  (IsListing /\ outcome = "ok") =>
    \A i, j \in 1..Len(log) :
      i < j =>
        /\ ListedDirsFirst => (log[j].is_dir => log[i].is_dir)
        /\ (~ListedDirsFirst \/ log[i].is_dir = log[j].is_dir)
             => KeyLeq(log[i], log[j])

\* C24 witness: a listing by name with directories-first off shows the file
\* "Bc" before the directory "ab", and the hidden entry too
C24_Witness ==
  /\ call.op = "list"
  /\ outcome = "ok"
  /\ ~call.dirsFirst
  /\ call.sortBy = "NAME"
  /\ Len(log) = 3
  /\ \E i, j \in 1..Len(log) :
       /\ i < j
       /\ log[i].name = <<"B", "c">> /\ ~log[i].is_dir
       /\ log[j].name = <<"a", "b">> /\ log[j].is_dir

(***************************************************************************)
(* The recent-files list                                                   *)
(***************************************************************************)
\* the list without the path p
Without(recent, p) == SelectSeq(recent, LAMBDA q : q # p)

\* C29: the recent-files list never holds more than maxRecentFiles paths and
\* holds no path twice; after a createFile that succeeded the created path
\* is at the front and the paths behind it are the other paths of the list
\* before the call, in the order they had, less the last one when the limit
\* would be exceeded.
C29_RecentFiles ==
  /\ Len(recentFiles) <= maxRecentFiles
  /\ \A i, j \in 1..Len(recentFiles) :
       recentFiles[i] = recentFiles[j] => i = j
  /\ (call.op = "createFile" /\ outcome = "ok") =>
       LET others == Without(call.recent, call.path)
           kept == IF Len(others) + 1 > maxRecentFiles
                     THEN Len(others) - 1 ELSE Len(others)
       IN /\ recentFiles # << >>
          /\ Head(recentFiles) = call.path
          /\ Tail(recentFiles) = SubSeq(others, 1, kept)

\* C29 witness: a new path is created while the list is full, and the
\* oldest path is gone
C29_Witness ==
  /\ call.op = "createFile"
  /\ outcome = "ok"
  /\ Len(call.recent) = maxRecentFiles
  /\ \A i \in 1..Len(call.recent) : call.recent[i] # call.path
  /\ Len(recentFiles) = maxRecentFiles
  /\ \A i \in 1..Len(recentFiles) :
       recentFiles[i] # call.recent[Len(call.recent)]

(***************************************************************************)
(* Completion                                                              *)
(***************************************************************************)
\* C23: every copy, move, remove and search call runs to its end and returns
\* an outcome, also a copy or a move of a directory into itself; no call
\* ends the program instead of returning.
C23_EveryCallReturns ==
  (IsCopy \/ IsMove \/ IsRemove \/ IsSearch) => outcome # "Crash"

(***************************************************************************)
(* Move keeps the data                                                     *)
(***************************************************************************)
\* the destination a move settles on
MoveDest ==
  IF call.op = "moveFile" THEN ResolveDest(pre, call.src, call.dst)
  ELSE call.dst

\* p is a file of the store f with the content d
HasData(f, p, d) == IsFile(f, p) /\ f[p].data = d

\* C25: after a move, whatever it reports, every file of the source subtree
\* is still found with its content, where it was or at the corresponding
\* place under the destination; also when the destination is the source or
\* lies inside it.
C25_MoveKeepsData ==
  IsMove =>
    \A q \in Below(pre, call.src) :
      IsFile(pre, q) =>
        \/ HasData(fs, q, pre[q].data)
        \/ HasData(fs, MoveDest \o SubSeq(q, Len(call.src) + 1, Len(q)),
                   pre[q].data)

(***************************************************************************)
(* Removal stays inside the subtree                                        *)
(***************************************************************************)
\* C26: a remove of the path P deletes only entries located at P or below
\* it; nothing outside that subtree is removed, also when the subtree holds
\* a symbolic link to a directory outside P.
C26_RemoveStaysInside ==
  IsRemove =>
    \A q \in DOMAIN pre \ DOMAIN fs : IsPrefix(At(pre, call.path), q)

(***************************************************************************)
(* The current directory is changed by changeDirectory alone               *)
(***************************************************************************)
\* C21: the current path changes only in a change of directory that
\* succeeds; across list, create, delete, copy, move, rename, search,
\* permission and ownership operations, and across a change of directory
\* that reports an error, it stays what the last successful change made it.
C21_OnlyChangeDirectoryMoves ==
  [][ /\ currentPath' # currentPath
           => (call'.op = "changeDirectory" /\ outcome' = "ok")
      /\ current' # current
           => (call'.op = "changeDirectory_fs" /\ outcome' = "ok") ]_vars

====
